---- MODULE Spec2Model ----
(***************************************************************************)
(* Model of src/src/05-objects-tasks.js: the Rectangle factory, the JSON   *)
(* helpers getJSON / fromJSON, and the css selector builder                *)
(* (SelectorBuilderClass behind the cssSelectorBuilder facade).            *)
(*                                                                         *)
(* JavaScript strings are TLA+ strings (TLC concatenates them with \o).    *)
(* A value that is a string or null is a record JsNull / JsStr(s).         *)
(***************************************************************************)
EXTENDS Integers, Sequences, FiniteSets, TLC

\* ------------------------------------------------------------- bounds
\* Number of SelectorBuilderClass instances one run may construct.
MaxBuilders == 3
\* Longest parts sequence a builder is given.
MaxParts == 4
\* Number of calls in one run that starts with no instance.
MaxSteps == 3
\* Number of calls in one run on a single instance.
ChainSteps == 6
\* Number of calls in one run that starts from the documented examples.
DocSteps == 2
\* Number of calls in one run on the rectangle and the JSON helpers.
ObjectSteps == 4
\* Number of calls of checkOrder() in one run on a given parts sequence.
OrderSteps == 1

\* Values handed to element(), id(), class(), attr(), pseudoClass(), pseudoElement().
Values == {"a", "b"}
\* Combinator strings handed to combine().
Combinators == {"+", "&"}

Builders == 1..MaxBuilders

\* ------------------------------------------------------- JavaScript values
JsNull == [isNull |-> TRUE, str |-> ""]
JsStr(s) == [isNull |-> FALSE, str |-> s]

\* join() with its default separator, a comma, in place of join('').
RECURSIVE joinComma(_)
joinComma(arr) ==
  IF Len(arr) = 0 THEN ""
  ELSE (IF Head(arr).isNull THEN "" ELSE Head(arr).str)
         \o (IF Len(arr) > 1 THEN "," ELSE "") \o joinComma(Tail(arr))

\* Array.prototype.join(''): the elements' texts in order; null contributes ''.
RECURSIVE join(_)
join(arr) ==
  IF Len(arr) = 0 THEN ""
  ELSE (IF Head(arr).isNull THEN "" ELSE Head(arr).str) \o join(Tail(arr))

\* Array.prototype.indexOf: 0-based position of the first occurrence, or -1.
indexOf(arr, x) ==
  IF \E i \in 1..Len(arr) : arr[i] = x
  THEN (CHOOSE i \in 1..Len(arr) : arr[i] = x /\ \A j \in 1..(i - 1) : arr[j] # x) - 1
  ELSE -1

\* Array.prototype.slice(from, to): the elements at 0-based positions from..to-1.
slice(arr, from, to) == SubSeq(arr, from + 1, to)

\* Array.prototype.includes.
includes(arr, x) == \E i \in 1..Len(arr) : arr[i] = x

\* ------------------------------------------------- SelectorBuilderClass
\* this.order, set by the constructor.
order == <<"element", "id", "class", "attribute", "pseudoClass", "pseudoElement">>

\* The messages of the two errors the builder throws.
DuplicateError == "Element, id and pseudo-element should not occur more then one time inside the selector"
OrderError == "Selector parts should be arranged in the following order: element, id, class, attribute, pseudo-class, pseudo-element"

\* constructor(): the fields of a new instance.
NewBuilder ==
  [selectors |-> <<>>,
   combineSelectors |-> <<>>,
   flags |-> [element |-> FALSE, id |-> FALSE, pseudoElement |-> FALSE]]

\* checkOrder()'s test with slice(indexInOrder) in place of slice(indexInOrder + 1).
isValidOrderFromSame(selectors) ==
  \A index \in 0..(Len(selectors) - 1) :
    LET selector == selectors[index + 1]
        indexInOrder == indexOf(order, selector.type)
        earlier == slice(selectors, 0, index)
    IN  \A k \in 1..Len(earlier) :
          ~ includes(slice(order, indexInOrder, Len(order)), earlier[k].type)

\* checkOrder()'s test with slice(indexInOrder + 1, -1): the last entry of order is
\* never looked for among the earlier parts.
isValidOrderDropLast(selectors) ==
  \A index \in 0..(Len(selectors) - 1) :
    LET selector == selectors[index + 1]
        indexInOrder == indexOf(order, selector.type)
        earlier == slice(selectors, 0, index)
    IN  \A k \in 1..Len(earlier) :
          ~ includes(slice(order, indexInOrder + 1, Len(order) - 1), earlier[k].type)

\* checkOrder()'s test made for the newest part and the part before it only.
isValidOrderLastPair(selectors) ==
  Len(selectors) >= 2 =>
    LET selector == selectors[Len(selectors)]
        indexInOrder == indexOf(order, selector.type)
        before == selectors[Len(selectors) - 1]
    IN  ~ includes(slice(order, indexInOrder + 1, Len(order)), before.type)

\* The test of checkOrder(): TRUE when it returns true, FALSE when it throws.
isValidOrder(selectors) ==
  \A index \in 0..(Len(selectors) - 1) :
    LET selector == selectors[index + 1]
        indexInOrder == indexOf(order, selector.type)
        earlier == slice(selectors, 0, index)
    IN  \A k \in 1..Len(earlier) :
          ~ includes(slice(order, indexInOrder + 1, Len(order)), earlier[k].type)

\* checkOrder() after a push: the outcome of the call that pushed.
checkOrder(bld) ==
  [b |-> bld, out |-> IF isValidOrder(bld.selectors) THEN "ok" ELSE OrderError]

\* this.selectors.push({ type, value }).
pushPart(bld, type, value) ==
  [bld EXCEPT !.selectors = Append(@, [type |-> type, value |-> value])]

\* element() without the test of its flag.
elementUnchecked(bld, value) ==
  checkOrder(pushPart([bld EXCEPT !.flags.element = TRUE], "element", "" \o value))

element(bld, value) ==
  IF bld.flags.element
  THEN [b |-> bld, out |-> DuplicateError]
  ELSE checkOrder(pushPart([bld EXCEPT !.flags.element = TRUE], "element", "" \o value))

\* id() that validates before it appends, and leaves the instance alone when it throws.
idRejectBeforeInsert(bld, value) ==
  IF bld.flags.id
  THEN [b |-> bld, out |-> DuplicateError]
  ELSE IF isValidOrder(Append(bld.selectors, [type |-> "id", value |-> "#" \o value]))
       THEN [b |-> pushPart([bld EXCEPT !.flags.id = TRUE], "id", "#" \o value), out |-> "ok"]
       ELSE [b |-> bld, out |-> OrderError]

\* id() that sets its flag and pushes before it tests the flag it had.
idPushBeforeTest(bld, value) ==
  IF bld.flags.id
  THEN [b |-> pushPart(bld, "id", "#" \o value), out |-> DuplicateError]
  ELSE checkOrder(pushPart([bld EXCEPT !.flags.id = TRUE], "id", "#" \o value))

\* id() without the test of its flag.
idUnchecked(bld, value) ==
  checkOrder(pushPart([bld EXCEPT !.flags.id = TRUE], "id", "#" \o value))

id(bld, value) ==
  IF bld.flags.id
  THEN [b |-> bld, out |-> DuplicateError]
  ELSE checkOrder(pushPart([bld EXCEPT !.flags.id = TRUE], "id", "#" \o value))

\* class() without the call of checkOrder(), as pseudoElement() is written.
classUnvalidated(bld, value) == [b |-> pushPart(bld, "class", "." \o value), out |-> "ok"]

class(bld, value) == checkOrder(pushPart(bld, "class", "." \o value))

\* attr() without the closing bracket.
attrUnclosed(bld, value) == checkOrder(pushPart(bld, "attribute", "[" \o value))

attr(bld, value) == checkOrder(pushPart(bld, "attribute", "[" \o value \o "]"))

pseudoClass(bld, value) == checkOrder(pushPart(bld, "pseudoClass", ":" \o value))

\* pseudoElement() with the call of checkOrder() the other five methods make.
pseudoElementValidated(bld, value) ==
  IF bld.flags.pseudoElement
  THEN [b |-> bld, out |-> DuplicateError]
  ELSE checkOrder(pushPart([bld EXCEPT !.flags.pseudoElement = TRUE], "pseudoElement", "::" \o value))

pseudoElement(bld, value) ==
  IF bld.flags.pseudoElement
  THEN [b |-> bld, out |-> DuplicateError]
  ELSE [b |-> pushPart([bld EXCEPT !.flags.pseudoElement = TRUE], "pseudoElement", "::" \o value),
        out |-> "ok"]

\* this.selectors.map((item) => item.value), as string values.
partValues(selectors) == [i \in 1..Len(selectors) |-> JsStr(selectors[i].value)]

\* stringify() with `let selector = ''` in place of `let selector = null`.
stringifyEmptyText(bld) ==
  [ret |-> IF Len(bld.selectors) # 0 THEN JsStr(join(partValues(bld.selectors)))
           ELSE IF Len(bld.combineSelectors) # 0 THEN JsStr(join(bld.combineSelectors))
           ELSE JsStr(""),
   b |-> [bld EXCEPT !.selectors = <<>>, !.combineSelectors = <<>>]]

\* stringify() that also resets the flags, as the constructor sets them.
stringifyResetFlags(bld) ==
  [ret |-> IF Len(bld.selectors) # 0 THEN JsStr(join(partValues(bld.selectors)))
           ELSE IF Len(bld.combineSelectors) # 0 THEN JsStr(join(bld.combineSelectors))
           ELSE JsNull,
   b |-> [bld EXCEPT !.selectors = <<>>, !.combineSelectors = <<>>,
                     !.flags = [element |-> FALSE, id |-> FALSE, pseudoElement |-> FALSE]]]

\* stringify() that joins the combination after the parts when both are there.
stringifyPartsAndCombination(bld) ==
  [ret |-> IF Len(bld.selectors) # 0
           THEN JsStr(join(partValues(bld.selectors)) \o join(bld.combineSelectors))
           ELSE IF Len(bld.combineSelectors) # 0 THEN JsStr(join(bld.combineSelectors))
           ELSE JsNull,
   b |-> [bld EXCEPT !.selectors = <<>>, !.combineSelectors = <<>>]]

\* stringify(): the returned value and the instance afterwards.
stringify(bld) ==
  [ret |-> IF Len(bld.selectors) # 0 THEN JsStr(join(partValues(bld.selectors)))
           ELSE IF Len(bld.combineSelectors) # 0 THEN JsStr(join(bld.combineSelectors))
           ELSE JsNull,
   b |-> [bld EXCEPT !.selectors = <<>>, !.combineSelectors = <<>>]]

\* this.combineSelectors.push(x) on instance b of heap h.
pushCombine(h, b, x) == [h EXCEPT ![b].combineSelectors = Append(@, x)]

\* this.combineSelectors.push(operand.stringify()) on instance b: the array to push on
\* is read before the argument is evaluated, and stringify() gives its instance new
\* arrays, so when the operand is b itself the push lands on the array b dropped.
pushStringified(h, b, operand) ==
  LET s == stringify(h[operand])
      h1 == [h EXCEPT ![operand] = s.b]
  IN  IF operand = b THEN h1 ELSE pushCombine(h1, b, s.ret)

\* combine() that pushes the combinator without the two spaces around it.
combineUnpadded(h, b, l, c, r) ==
  pushStringified(pushCombine(pushStringified(h, b, l), b, JsStr("" \o c)), b, r)

\* combine() that renders the right operand before the left one, and then pushes the
\* three texts in the usual places.
combineRightFirst(h, b, l, c, r) ==
  LET sr == stringify(h[r])
      h1 == [h EXCEPT ![r] = sr.b]
      sl == stringify(h1[l])
      h2 == [h1 EXCEPT ![l] = sl.b]
  IN  pushCombine(pushCombine(pushCombine(h2, b, sl.ret), b, JsStr(" " \o c \o " ")), b, sr.ret)

\* b.combine(l, c, r) on the heap h of instances: the three pushes in order, each
\* operand rendered (and so reset) by its own stringify() when its push is reached.
combine(h, b, l, c, r) ==
  pushStringified(pushCombine(pushStringified(h, b, l), b, JsStr(" " \o c \o " ")), b, r)

\* ------------------------------------------------------ objects and JSON
\* A property value: a number, a function, or undefined (a missing property).
Num(n) == [kind |-> "number", num |-> n]
Fun == [kind |-> "function", num |-> 0]
Undefined == [kind |-> "undefined", num |-> 0]
NaN == [kind |-> "NaN", num |-> 0]

\* An object: its own properties in insertion order, and its prototype.
Prop(key, val) == [key |-> key, val |-> val]
Obj(props, proto) == [props |-> props, proto |-> proto]
NoObject == Obj(<<>>, "none")

\* The prototypes handed to fromJSON: Object.prototype, and one that has an area
\* method and a field of its own.
ProtoProps(proto) ==
  IF proto = "Shape.prototype"
  THEN <<Prop("getArea", Fun), Prop("sides", Num(4))>>
  ELSE <<>>

\* Position of an object's own property key, 0 when it has none.
ownIndex(props, key) ==
  IF \E i \in 1..Len(props) : props[i].key = key
  THEN CHOOSE i \in 1..Len(props) : props[i].key = key
  ELSE 0

\* obj.key: the own property, else the prototype's, else undefined.
getProp(obj, key) ==
  IF ownIndex(obj.props, key) # 0 THEN obj.props[ownIndex(obj.props, key)].val
  ELSE IF ownIndex(ProtoProps(obj.proto), key) # 0
       THEN ProtoProps(obj.proto)[ownIndex(ProtoProps(obj.proto), key)].val
       ELSE Undefined

\* obj.key = val: replaces the own property in place, or adds it last.
setProp(obj, key, val) ==
  IF ownIndex(obj.props, key) # 0
  THEN [obj EXCEPT !.props[ownIndex(obj.props, key)].val = val]
  ELSE [obj EXCEPT !.props = Append(@, Prop(key, val))]

\* x * y: the product of two numbers, NaN otherwise.
multiply(x, y) ==
  IF x.kind = "number" /\ y.kind = "number" THEN Num(x.num * y.num) ELSE NaN

\* getArea() with width taken twice.
getAreaOfWidth(this) == multiply(getProp(this, "width"), getProp(this, "width"))

\* getArea() { return this.width * this.height; }
getArea(this) == multiply(getProp(this, "width"), getProp(this, "height"))

\* Rectangle(width, height): the object literal it returns.
Rectangle(width, height) ==
  Obj(<<Prop("width", Num(width)), Prop("height", Num(height)), Prop("getArea", Fun)>>,
      "Object.prototype")

\* obj.getArea(): the property is looked up and called; a TypeError when it is no function.
callGetArea(obj) ==
  IF getProp(obj, "getArea").kind = "function" THEN getArea(obj)
  ELSE [kind |-> "TypeError", num |-> 0]

\* The decimal text of an integer, as JSON.stringify writes a number.
digitText(d) == SubSeq("0123456789", d + 1, d + 1)

RECURSIVE naturalText(_)
naturalText(n) ==
  IF n < 10 THEN digitText(n) ELSE naturalText(n \div 10) \o digitText(n % 10)

numberText(n) == IF n < 0 THEN "-" \o naturalText(-n) ELSE naturalText(n)

\* The members of JSON.stringify's object text: "key":number for each own property
\* in order, functions and undefined left out, a comma between two members.
RECURSIVE membersText(_, _)
membersText(props, first) ==
  IF Len(props) = 0 THEN ""
  ELSE IF Head(props).val.kind # "number" THEN membersText(Tail(props), first)
  ELSE (IF first THEN "" ELSE ",")
         \o "\"" \o Head(props).key \o "\":" \o numberText(Head(props).val.num)
         \o membersText(Tail(props), FALSE)

\* getJSON(obj): JSON.stringify(obj).
getJSON(obj) == "{" \o membersText(obj.props, TRUE) \o "}"

\* The character at position i of a text, "" beyond its end.
charAt(text, i) == IF i >= 1 /\ i <= Len(text) THEN SubSeq(text, i, i) ELSE ""

\* First position from i on where the text holds one of the characters, else Len + 1.
RECURSIVE scanTo(_, _, _)
scanTo(text, i, stops) ==
  IF i > Len(text) \/ charAt(text, i) \in stops THEN i ELSE scanTo(text, i + 1, stops)

digitValue(c) ==
  CASE c = "0" -> 0 [] c = "1" -> 1 [] c = "2" -> 2 [] c = "3" -> 3 [] c = "4" -> 4
    [] c = "5" -> 5 [] c = "6" -> 6 [] c = "7" -> 7 [] c = "8" -> 8 [] c = "9" -> 9

\* The value of a run of decimal digits.
RECURSIVE naturalValue(_)
naturalValue(text) ==
  IF Len(text) = 0 THEN 0
  ELSE 10 * naturalValue(SubSeq(text, 1, Len(text) - 1)) + digitValue(charAt(text, Len(text)))

numberValue(text) ==
  IF charAt(text, 1) = "-" THEN 0 - naturalValue(SubSeq(text, 2, Len(text)))
  ELSE naturalValue(text)

\* JSON.parse of the members of an object text from position i: "key":number, then
\* a comma and the next member, or the closing brace.
RECURSIVE parseMembers(_, _, _)
parseMembers(text, i, props) ==
  LET keyEnd == scanTo(text, i + 1, {"\""})
      valEnd == scanTo(text, keyEnd + 2, {",", "}"})
      member == Prop(SubSeq(text, i + 1, keyEnd - 1),
                     Num(numberValue(SubSeq(text, keyEnd + 2, valEnd - 1))))
  IN  IF charAt(text, valEnd) = "," THEN parseMembers(text, valEnd + 1, Append(props, member))
      ELSE Append(props, member)

\* JSON.parse(json) of an object text: a plain object with the members as its own
\* properties in the order of the text.
parseJSON(json) ==
  Obj(IF charAt(json, 2) = "}" THEN <<>> ELSE parseMembers(json, 2, <<>>), "Object.prototype")

\* fromJSON() that also copies the prototype's own properties onto the object.
fromJSONCopying(proto, json) ==
  Obj(parseJSON(json).props \o ProtoProps(proto), proto)

\* fromJSON(proto, json): the parsed object with proto set as its prototype.
fromJSON(proto, json) == [parseJSON(json) EXCEPT !.proto = proto]

\* ---------------------------------------------------------------- state
VARIABLES
  builders,   \* the SelectorBuilderClass instances: their selectors, combineSelectors, flags
  created,    \* how many instances have been constructed (instances 1..created exist)
  called,     \* per instance, which of element / id / pseudoElement the caller has invoked on it
  last,       \* the latest call: operation, receiver, arguments, error thrown or value returned
  steps,      \* calls the run may still make
  rect,       \* the object the latest Rectangle(width, height) returned
  args,       \* the arguments of that Rectangle call
  source,     \* the object the latest getJSON was given
  json,       \* the text the latest getJSON returned
  parsed,     \* the object the latest fromJSON returned
  answer      \* the latest call on an object: the operation and what it returned

builderVars == <<builders, created, called, last>>
objectVars == <<rect, args, source, json, parsed, answer>>
vars == <<builders, created, called, last, steps, rect, args, source, json, parsed, answer>>

NoCall == [op |-> "none", b |-> 0, arg |-> "", l |-> 0, r |-> 0, out |-> "ok", ret |-> JsNull]

\* The operations allowed once per instance.
Singletons == {"element", "id", "pseudoElement"}

NoAnswer == [op |-> "none", proto |-> "none", ret |-> Undefined]

\* No object made yet.
NoObjects ==
  /\ rect = NoObject
  /\ args = [width |-> 0, height |-> 0]
  /\ source = NoObject
  /\ json = ""
  /\ parsed = NoObject
  /\ answer = NoAnswer

Init ==
  /\ NoObjects
  /\ builders = [b \in Builders |-> NewBuilder]
  /\ created = 0
  /\ called = [b \in Builders |-> {}]
  /\ last = NoCall
  /\ steps = MaxSteps

\* A receiver: an existing instance (a chained call), or instance created + 1, which
\* the facade constructs for the call (new SelectorBuilderClass().op(...)).
Receivers == {b \in Builders : b <= created + 1}

\* A category call when every instance pushes onto one selectors array (an array kept
\* outside the constructor) instead of its own.
InvokeSharedSelectors(b, op, value, res) ==
  /\ steps > 0
  /\ b \in Receivers
  /\ Len(builders[b].selectors) < MaxParts
  /\ builders' = [o \in Builders |->
                    IF o = b THEN res.b ELSE [builders[o] EXCEPT !.selectors = res.b.selectors]]
  /\ created' = IF b > created THEN b ELSE created
  /\ called' = [called EXCEPT ![b] = @ \cup ({op} \cap Singletons)]
  /\ last' = [NoCall EXCEPT !.op = op, !.b = b, !.arg = value, !.out = res.out]
  /\ steps' = steps - 1
  /\ UNCHANGED objectVars

\* One category call on receiver b, res being the method's result.
Invoke(b, op, value, res) ==
  /\ steps > 0
  /\ b \in Receivers
  /\ Len(builders[b].selectors) < MaxParts
  /\ builders' = [builders EXCEPT ![b] = res.b]
  /\ created' = IF b > created THEN b ELSE created
  /\ called' = [called EXCEPT ![b] = @ \cup ({op} \cap Singletons)]
  /\ last' = [NoCall EXCEPT !.op = op, !.b = b, !.arg = value, !.out = res.out]
  /\ steps' = steps - 1
  /\ UNCHANGED objectVars

Element(b, value) == Invoke(b, "element", value, element(builders[b], value))

Id(b, value) == Invoke(b, "id", value, id(builders[b], value))

Class(b, value) == Invoke(b, "class", value, class(builders[b], value))

Attr(b, value) == Invoke(b, "attr", value, attr(builders[b], value))

PseudoClass(b, value) == Invoke(b, "pseudoClass", value, pseudoClass(builders[b], value))

PseudoElement(b, value) == Invoke(b, "pseudoElement", value, pseudoElement(builders[b], value))

\* b.combine(l, c, r); l and r are existing instances.
Combine(b, l, c, r) ==
  /\ steps > 0
  /\ b \in Receivers
  /\ l \in 1..created /\ r \in 1..created
  /\ builders' = combine(builders, b, l, c, r)
  /\ created' = IF b > created THEN b ELSE created
  /\ last' = [NoCall EXCEPT !.op = "combine", !.b = b, !.arg = c, !.l = l, !.r = r]
  /\ steps' = steps - 1
  /\ UNCHANGED <<called, objectVars>>

\* b.stringify() on an existing instance.
Stringify(b) ==
  /\ steps > 0
  /\ b \in 1..created
  /\ LET res == stringify(builders[b])
     IN  /\ builders' = [builders EXCEPT ![b] = res.b]
         /\ last' = [NoCall EXCEPT !.op = "stringify", !.b = b, !.ret = res.ret]
  /\ steps' = steps - 1
  /\ UNCHANGED <<created, called, objectVars>>

Next ==
  \/ \E b \in Builders, value \in Values : Element(b, value)
  \/ \E b \in Builders, value \in Values : Id(b, value)
  \/ \E b \in Builders, value \in Values : Class(b, value)
  \/ \E b \in Builders, value \in Values : Attr(b, value)
  \/ \E b \in Builders, value \in Values : PseudoClass(b, value)
  \/ \E b \in Builders, value \in Values : PseudoElement(b, value)
  \/ \E b \in Builders, l \in Builders, r \in Builders, c \in Combinators : Combine(b, l, c, r)
  \/ \E b \in Builders : Stringify(b)

Spec == Init /\ [][Next]_vars

\* ------------------------------------------------- one chain of calls
\* A run of calls chained on one instance, which the facade constructs for the first.
InitChain ==
  /\ NoObjects
  /\ builders = [b \in Builders |-> NewBuilder]
  /\ created = 0
  /\ called = [b \in Builders |-> {}]
  /\ last = NoCall
  /\ steps = ChainSteps

NextChain ==
  \/ \E value \in Values : Element(1, value)
  \/ \E value \in Values : Id(1, value)
  \/ \E value \in Values : Class(1, value)
  \/ \E value \in Values : Attr(1, value)
  \/ \E value \in Values : PseudoClass(1, value)
  \/ \E value \in Values : PseudoElement(1, value)
  \/ Stringify(1)

SpecChain == InitChain /\ [][NextChain]_vars

\* ------------------------------------------- the documented examples
\* element('div').id('main') and element('table').id('data').
DocDivMain == id(element(NewBuilder, "div").b, "main").b

DocTableData == id(element(NewBuilder, "table").b, "data").b

\* element('div').id('main').class('container').class('draggable').
DocDraggable == class(class(DocDivMain, "container").b, "draggable").b

\* element('tr').pseudoClass('nth-of-type(even)') and the same for 'td'.
DocTr == pseudoClass(element(NewBuilder, "tr").b, "nth-of-type(even)").b

DocTd == pseudoClass(element(NewBuilder, "td").b, "nth-of-type(even)").b

\* combine(element('table').id('data'), '~', combine(tr..., ' ', td...)): the facade's
\* two new instances are 4 and 5 of a heap that holds the three operands.
DocInner ==
  LET h0 == <<DocTableData, DocTr, DocTd, NewBuilder, NewBuilder>>
      h1 == combine(h0, 4, 2, " ", 3)
  IN  combine(h1, 5, 1, "~", 4)[5]

\* A run that starts holding the two operands of a documented combine: either the
\* two compound selectors, or a compound selector and a nested combination.
InitDoc ==
  /\ \/ /\ builders = [b \in Builders |-> IF b = 1 THEN DocDivMain
                                          ELSE IF b = 2 THEN DocTableData ELSE NewBuilder]
        /\ called = [b \in Builders |-> IF b \in {1, 2} THEN {"element", "id"} ELSE {}]
     \/ /\ builders = [b \in Builders |-> IF b = 1 THEN DocDraggable
                                          ELSE IF b = 2 THEN DocInner ELSE NewBuilder]
        /\ called = [b \in Builders |-> IF b = 1 THEN {"element", "id"} ELSE {}]
  /\ created = 2
  /\ last = NoCall
  /\ steps = DocSteps
  /\ NoObjects

SpecDoc == InitDoc /\ [][Next]_vars

\* ------------------------------------------------------ objects: a run
\* Numbers handed to Rectangle and assigned to width and height.
Dims == {-1, 0, 12}

\* The plain records handed to getJSON: width and height in either order, or a radius.
PlainRecords ==
  {Obj(<<Prop("width", Num(w)), Prop("height", Num(h))>>, "Object.prototype") : w \in Dims, h \in Dims}
    \cup {Obj(<<Prop("height", Num(h)), Prop("width", Num(w))>>, "Object.prototype") : w \in Dims, h \in Dims}
    \cup {Obj(<<Prop("radius", Num(r))>>, "Object.prototype") : r \in Dims}

Protos == {"Object.prototype", "Shape.prototype"}

InitObjects ==
  /\ NoObjects
  /\ builders = [b \in Builders |-> NewBuilder]
  /\ created = 0
  /\ called = [b \in Builders |-> {}]
  /\ last = NoCall
  /\ steps = ObjectSteps

\* const r = Rectangle(width, height).
RectangleCall(width, height) ==
  /\ steps > 0
  /\ steps' = steps - 1
  /\ rect' = Rectangle(width, height)
  /\ args' = [width |-> width, height |-> height]
  /\ answer' = [NoAnswer EXCEPT !.op = "Rectangle"]
  /\ UNCHANGED <<source, json, parsed, builderVars>>

\* r.width = value, or r.height = value, by the holder of the rectangle.
Assign(key, value) ==
  /\ steps > 0
  /\ steps' = steps - 1
  /\ rect # NoObject
  /\ rect' = setProp(rect, key, Num(value))
  /\ answer' = [NoAnswer EXCEPT !.op = "assign"]
  /\ UNCHANGED <<args, source, json, parsed, builderVars>>

\* r.getArea().
GetArea ==
  /\ steps > 0
  /\ steps' = steps - 1
  /\ rect # NoObject
  /\ answer' = [NoAnswer EXCEPT !.op = "getArea", !.ret = callGetArea(rect)]
  /\ UNCHANGED <<rect, args, source, json, parsed, builderVars>>

\* getJSON(obj), obj a plain record or the rectangle.
GetJSON(obj) ==
  /\ steps > 0
  /\ steps' = steps - 1
  /\ obj # NoObject
  /\ source' = obj
  /\ json' = getJSON(obj)
  /\ answer' = [NoAnswer EXCEPT !.op = "getJSON"]
  /\ UNCHANGED <<rect, args, parsed, builderVars>>

\* fromJSON(proto, json) of the text getJSON returned.
FromJSON(proto) ==
  /\ steps > 0
  /\ steps' = steps - 1
  /\ json # ""
  /\ parsed' = fromJSON(proto, json)
  /\ answer' = [NoAnswer EXCEPT !.op = "fromJSON", !.proto = proto]
  /\ UNCHANGED <<rect, args, source, json, builderVars>>

\* getArea() called on the object fromJSON returned.
GetAreaParsed ==
  /\ steps > 0
  /\ steps' = steps - 1
  /\ parsed # NoObject
  /\ answer' = [NoAnswer EXCEPT !.op = "parsed.getArea", !.ret = callGetArea(parsed)]
  /\ UNCHANGED <<rect, args, source, json, parsed, builderVars>>

NextObjects ==
  \/ \E width \in Dims, height \in Dims : RectangleCall(width, height)
  \/ \E key \in {"width", "height"}, value \in Dims : Assign(key, value)
  \/ GetArea
  \/ \E obj \in PlainRecords \cup {rect} : GetJSON(obj)
  \/ \E proto \in Protos : FromJSON(proto)
  \/ GetAreaParsed

SpecObjects == InitObjects /\ [][NextObjects]_vars

\* ------------------------------------------------ checkOrder() by itself
\* b.checkOrder(), called from outside: it reads this.selectors and this.order, changes
\* nothing, and returns true or throws.
CheckOrder(b) ==
  /\ steps > 0
  /\ b \in 1..created
  /\ last' = [NoCall EXCEPT !.op = "checkOrder", !.b = b, !.out = checkOrder(builders[b]).out]
  /\ steps' = steps - 1
  /\ UNCHANGED <<builders, created, called, objectVars>>

\* The parts a category call pushes for the value "a", one for each entry of order.
CategoryParts ==
  {[type |-> "element", value |-> "a"], [type |-> "id", value |-> "#a"],
   [type |-> "class", value |-> ".a"], [type |-> "attribute", value |-> "[a]"],
   [type |-> "pseudoClass", value |-> ":a"], [type |-> "pseudoElement", value |-> "::a"]}

\* Every sequence of up to MaxParts such parts.
PartsSequences == UNION {[1..n -> CategoryParts] : n \in 0..MaxParts}

\* One instance whose selectors array holds any sequence of parts over the six
\* categories (the array is all checkOrder() reads of the instance), each flag set
\* when a part of its category is there.
InitOrder ==
  /\ NoObjects
  /\ \E parts \in PartsSequences :
       builders = [b \in Builders |->
                     IF b = 1
                     THEN [NewBuilder EXCEPT
                             !.selectors = parts,
                             !.flags = [t \in Singletons |-> includes([i \in 1..Len(parts) |-> parts[i].type], t)]]
                     ELSE NewBuilder]
  /\ created = 1
  /\ called = [b \in Builders |-> {t \in Singletons : builders[b].flags[t]}]
  /\ last = NoCall
  /\ steps = OrderSteps

NextOrder == CheckOrder(1)

SpecOrder == InitOrder /\ [][NextOrder]_vars

\* ================================================================ claims
\* What the claims speak of, stated apart from the code's own definitions.

\* The six category operations and the part category each one appends.
CategoryOps == {"element", "id", "class", "attr", "pseudoClass", "pseudoElement"}

CategoryOf(op) == IF op = "attr" THEN "attribute" ELSE op

\* The place of a category in element < id < class < attribute < pseudoClass < pseudoElement.
Rank(type) ==
  CASE type = "element" -> 1
    [] type = "id" -> 2
    [] type = "class" -> 3
    [] type = "attribute" -> 4
    [] type = "pseudoClass" -> 5
    [] type = "pseudoElement" -> 6

\* The fragment of a category call: the value with its marker.
Fragment(op, value) ==
  CASE op = "element" -> value
    [] op = "id" -> "#" \o value
    [] op = "class" -> "." \o value
    [] op = "attr" -> "[" \o value \o "]"
    [] op = "pseudoClass" -> ":" \o value
    [] op = "pseudoElement" -> "::" \o value

\* Some earlier part belongs to a later category than some later part.
Inversion(parts) ==
  \E i \in 1..Len(parts), j \in 1..Len(parts) :
    i < j /\ Rank(parts[i].type) > Rank(parts[j].type)

HasPart(parts, type) == \E i \in 1..Len(parts) : parts[i].type = type

\* The texts of a sequence, one after the other; a null text adds nothing.
Concat(texts) ==
  LET RECURSIVE upTo(_)
      upTo(n) == IF n = 0 THEN ""
                 ELSE upTo(n - 1) \o (IF texts[n].isNull THEN "" ELSE texts[n].str)
  IN  upTo(Len(texts))

\* The fragments of a parts sequence in insertion order, as one text.
PartsText(parts) == Concat([i \in 1..Len(parts) |-> JsStr(parts[i].value)])

\* What an instance's own stringify() would return.
Text(bld) ==
  IF bld.selectors # <<>> THEN JsStr(PartsText(bld.selectors))
  ELSE IF bld.combineSelectors # <<>> THEN JsStr(Concat(bld.combineSelectors))
  ELSE JsNull

\* An instance as a valid sequence of category calls leaves a new instance: no
\* combination, parts in category order, element / id / pseudoElement at most once,
\* and each flag set exactly when its part is there.
ValidChain(bld) ==
  /\ bld.combineSelectors = <<>>
  /\ ~ Inversion(bld.selectors)
  /\ \A t \in Singletons :
       /\ Cardinality({i \in 1..Len(bld.selectors) : bld.selectors[i].type = t}) <= 1
       /\ bld.flags[t] = HasPart(bld.selectors, t)

\* The call op continues a valid sequence: its category is not before the last
\* part's, and a once-only category is not there yet.
Continues(bld, op) ==
  /\ \A i \in 1..Len(bld.selectors) : Rank(bld.selectors[i].type) <= Rank(CategoryOf(op))
  /\ op \in Singletons => ~ HasPart(bld.selectors, op)

\* The step is the call last' describes, made on instance b.
CallOn(b) == last'.b = b

\* C1: on a new instance, every call of a valid sequence (element, id, class*, attr*,
\* pseudoClass*, pseudoElement in that relative order) raises no error and appends its
\* fragment after the parts already there, and stringify() returns the fragments
\* concatenated in call order.
C1_ValidSequenceRenders ==
  [][\A b \in Builders :
       (CallOn(b) /\ ValidChain(builders[b])) =>
         /\ (last'.op \in CategoryOps /\ Continues(builders[b], last'.op)) =>
              /\ last'.out = "ok"
              /\ builders'[b].selectors =
                   Append(builders[b].selectors,
                          [type |-> CategoryOf(last'.op),
                           value |-> Fragment(last'.op, last'.arg)])
              /\ ValidChain(builders'[b])
         /\ (last'.op = "stringify" /\ builders[b].selectors # <<>>) =>
              last'.ret = JsStr(PartsText(builders[b].selectors))]_vars

\* A valid sequence of four calls has been rendered.
C1_Witness ==
  /\ last.op = "stringify"
  /\ last.ret = JsStr("a#b.a[b]")

\* C2: a call of element(), id() or pseudoElement() on an instance on which the same
\* operation was called before raises the duplicate-part error, whatever was called in
\* between; class(), attr() and pseudoClass() never raise it.
C2_DuplicateRaised ==
  [][\A b \in Builders :
       CallOn(b) =>
         /\ (last'.op \in Singletons /\ last'.op \in called[b]) => last'.out = DuplicateError
         /\ last'.op \in {"class", "attr", "pseudoClass"} => last'.out # DuplicateError]_vars

\* A second element() was rejected with another part appended in between.
C2_Witness ==
  /\ last.op = "element"
  /\ last.out = DuplicateError
  /\ Len(builders[last.b].selectors) >= 2
  /\ builders[last.b].selectors[1].type = "element"

\* C3: a call of element(), id(), class(), attr() or pseudoClass() that is not rejected
\* as a duplicate raises the selector-order error exactly when, after the append, some
\* earlier part belongs to a later category than some later part.
C3_OrderErrorIffInversion ==
  (last.op \in {"element", "id", "class", "attr", "pseudoClass"} /\ last.out # DuplicateError)
    => (last.out = OrderError <=> Inversion(builders[last.b].selectors))

\* id() after class() raised the selector-order error.
C3_Witness ==
  /\ last.op = "id"
  /\ last.out = OrderError
  /\ Len(builders[last.b].selectors) = 2
  /\ builders[last.b].selectors[1].type = "class"

\* The facade's combine(l, c, r): a new instance b, and two distinct operands.
FacadeCombine(b, l, r) ==
  /\ last'.op = "combine" /\ last'.b = b /\ last'.l = l /\ last'.r = r
  /\ b > created
  /\ l # r

\* C4: combine(left, c, right) of two distinct builders whose own stringify() would
\* return the texts L and R holds L, ' ' + c + ' ', R, and its stringify() returns
\* L + ' ' + c + ' ' + R.
C4_CombineRenders ==
  [][\A b \in Builders :
       /\ \A l \in Builders, r \in Builders :
            (/\ FacadeCombine(b, l, r)
             /\ builders[l].selectors # <<>>
             /\ builders[r].selectors # <<>>) =>
              /\ builders'[b].selectors = <<>>
              /\ builders'[b].combineSelectors =
                   << JsStr(PartsText(builders[l].selectors)),
                      JsStr(" " \o last'.arg \o " "),
                      JsStr(PartsText(builders[r].selectors)) >>
       /\ (/\ CallOn(b) /\ last'.op = "stringify"
           /\ builders[b].selectors = <<>>
           /\ Len(builders[b].combineSelectors) = 3) =>
            last'.ret = JsStr(builders[b].combineSelectors[1].str
                                \o builders[b].combineSelectors[2].str
                                \o builders[b].combineSelectors[3].str)]_vars

\* The documented combination of div#main and table#data has been rendered.
C4_Witness ==
  /\ last.op = "stringify"
  /\ last.ret = JsStr("div#main + table#data")

\* An instance that is a combine result: a combination and no parts.
IsCombination(bld) == bld.selectors = <<>> /\ bld.combineSelectors # <<>>

\* C5: when an operand of combine is itself a combine result, its fully rendered text
\* is embedded unchanged, left operand first; the result's stringify() returns the
\* embedded texts and combinators in the order written.
C5_NestedCombine ==
  [][\A b \in Builders :
       /\ \A l \in Builders, r \in Builders :
            (/\ FacadeCombine(b, l, r)
             /\ IsCombination(builders[l]) \/ IsCombination(builders[r])) =>
              builders'[b].combineSelectors =
                << Text(builders[l]), JsStr(" " \o last'.arg \o " "), Text(builders[r]) >>
       /\ (CallOn(b) /\ last'.op = "stringify" /\ IsCombination(builders[b])) =>
            last'.ret = JsStr(Concat(builders[b].combineSelectors))]_vars

\* The documented three-level combination has been rendered.
C5_Witness ==
  /\ last.op = "stringify"
  /\ last.ret =
       JsStr("div#main.container.draggable + table#data ~ tr:nth-of-type(even)   td:nth-of-type(even)")

\* C6: stringify() on an instance whose parts and combination are both empty returns
\* null and raises no error.
C6_EmptyRendersNull ==
  [][\A b \in Builders :
       (/\ CallOn(b) /\ last'.op = "stringify"
        /\ builders[b].selectors = <<>>
        /\ builders[b].combineSelectors = <<>>) =>
         (last'.ret = JsNull /\ last'.out = "ok")]_vars

\* A second stringify() right after a first one returned null.
C6_Witness ==
  /\ last.op = "stringify"
  /\ last.ret = JsNull
  /\ called[last.b] # {}

\* An object's own property key is there, and the number it holds.
HasField(obj, key) == \E i \in 1..Len(obj.props) : obj.props[i].key = key

Field(obj, key) ==
  LET i == CHOOSE k \in 1..Len(obj.props) : obj.props[k].key = key
  IN  obj.props[i].val.num

\* C7: the object Rectangle(w, h) returns has width = w and height = h, and getArea()
\* returns the product of the width and height the object holds when it is called.
C7_RectangleArea ==
  /\ answer.op = "Rectangle" =>
       /\ HasField(rect, "width") /\ Field(rect, "width") = args.width
       /\ HasField(rect, "height") /\ Field(rect, "height") = args.height
  /\ answer.op = "getArea" =>
       answer.ret = Num(Field(rect, "width") * Field(rect, "height"))

\* getArea() was called after a reassignment and returned the product of the new
\* values, which is not the product of the constructor's arguments.
C7_Witness ==
  /\ answer.op = "getArea"
  /\ Field(rect, "width") # args.width
  /\ answer.ret = Num(Field(rect, "width") * Field(rect, "height"))
  /\ answer.ret # Num(args.width * args.height)

\* A plain record: every own property a number, Object.prototype its prototype.
IsPlainRecord(obj) ==
  /\ obj # NoObject
  /\ obj.proto = "Object.prototype"
  /\ \A i \in 1..Len(obj.props) : obj.props[i].val.kind = "number"

\* C8: for a plain record r, fromJSON(proto, getJSON(r)) has own fields equal to those
\* of r and proto as its prototype, none of proto's own fields copied onto it; an area
\* method of proto is callable on it and computes from its parsed fields.
C8_JsonRoundTrip ==
  /\ (answer.op = "fromJSON" /\ IsPlainRecord(source)) =>
       /\ parsed.props = source.props
       /\ parsed.proto = answer.proto
       /\ \A i \in 1..Len(ProtoProps(answer.proto)) :
            HasField(parsed, ProtoProps(answer.proto)[i].key)
              => HasField(source, ProtoProps(answer.proto)[i].key)
  /\ (/\ answer.op = "parsed.getArea"
      /\ parsed.proto = "Shape.prototype"
      /\ HasField(parsed, "width") /\ HasField(parsed, "height")) =>
       answer.ret = Num(Field(parsed, "width") * Field(parsed, "height"))

\* The record {width: -1, height: 12} went through getJSON and fromJSON, and the
\* prototype's area method was called on the result.
C8_Witness ==
  /\ answer.op = "parsed.getArea"
  /\ parsed.proto = "Shape.prototype"
  /\ parsed.props = source.props
  /\ json = "{\"width\":-1,\"height\":12}"
  /\ answer.ret = Num(-12)

\* C9 as stated: every non-empty parts sequence that stringify() renders satisfies the
\* category order.
C9_RenderedPartsOrdered ==
  [][\A b \in Builders :
       (CallOn(b) /\ last'.op = "stringify" /\ builders[b].selectors # <<>>) =>
         ~ Inversion(builders[b].selectors)]_vars

\* C9 as amended: a parts sequence comes to violate the category order only in a call
\* that raises the selector-order error, so stringify() renders a violating sequence
\* only on an instance whose caller caught that error.
C9_DisorderOnlyByOrderError ==
  [][\A b \in Builders :
       (Inversion(builders'[b].selectors) /\ ~ Inversion(builders[b].selectors)) =>
         (CallOn(b) /\ last'.out = OrderError)]_vars

\* A parts sequence left by a caught selector-order error has been rendered.
C9_Witness ==
  /\ last.op = "stringify"
  /\ last.ret = JsStr(".a#b")

\* C10: stringify() leaves the instance with no parts and no combination and its three
\* flags as they were; so element(), id() or pseudoElement() called again on an instance
\* that was reset after its first such call still raises the duplicate-part error.
C10_RenderKeepsFlags ==
  [][\A b \in Builders :
       CallOn(b) =>
         /\ last'.op = "stringify" =>
              /\ builders'[b].selectors = <<>>
              /\ builders'[b].combineSelectors = <<>>
              /\ builders'[b].flags = builders[b].flags
         /\ (/\ last'.op \in Singletons
             /\ last'.op \in called[b]
             /\ ~ HasPart(builders[b].selectors, last'.op)) =>
              last'.out = DuplicateError]_vars

\* element() was called again after a stringify() and rejected.
C10_Witness ==
  /\ last.op = "element"
  /\ last.out = DuplicateError
  /\ "element" \in called[last.b]
  /\ builders[last.b].selectors = <<>>

\* C11: when an append raises the selector-order error the append has taken effect:
\* the offending part is the last part, the earlier parts are as they were, and for
\* element() and id() the flag is set; a following stringify() returns the parts'
\* fragments with the offending one among them.
C11_OrderErrorLeavesPart ==
  [][\A b \in Builders :
       CallOn(b) =>
         /\ last'.out = OrderError =>
              /\ builders'[b].selectors =
                   Append(builders[b].selectors,
                          [type |-> CategoryOf(last'.op),
                           value |-> Fragment(last'.op, last'.arg)])
              /\ last'.op \in {"element", "id"} => builders'[b].flags[last'.op]
         /\ (last'.op = "stringify" /\ Inversion(builders[b].selectors)) =>
              last'.ret = JsStr(PartsText(builders[b].selectors))]_vars

\* id() raised the selector-order error after a pseudo-class, and the stringify() that
\* followed returned both fragments.
C11_Witness ==
  /\ last.op = "stringify"
  /\ last.ret = JsStr(":a#b")
  /\ builders[last.b].flags.id

\* Every two parts are in category order: the earlier one's place in the order is not
\* after the later one's.
PairwiseOrdered(parts) ==
  \A i \in 1..Len(parts), j \in 1..Len(parts) :
    i < j => Rank(parts[i].type) <= Rank(parts[j].type)

\* Every part's place in the order is not after that of the part next to it.
AdjacentOrdered(parts) ==
  \A i \in 1..(Len(parts) - 1) : Rank(parts[i].type) <= Rank(parts[i + 1].type)

\* C12: checkOrder() returns without the order error exactly when every pair of parts
\* i < j has the category of part i not after the category of part j, and that holds
\* exactly when the categories of adjacent parts never step back; for every sequence
\* of parts over the six categories.
C12_CheckOrderIsPairwiseIsAdjacent ==
  last.op = "checkOrder" =>
    LET parts == builders[last.b].selectors
    IN  /\ (last.out = "ok") <=> PairwiseOrdered(parts)
        /\ (last.out = OrderError) <=> ~ PairwiseOrdered(parts)
        /\ PairwiseOrdered(parts) <=> AdjacentOrdered(parts)

\* checkOrder() threw on a full sequence whose first part belongs after its last part,
\* with equal neighbours in between.
C12_Witness ==
  /\ last.op = "checkOrder"
  /\ last.out = OrderError
  /\ LET parts == builders[last.b].selectors
     IN  /\ Len(parts) = MaxParts
         /\ Rank(parts[1].type) > Rank(parts[Len(parts)].type)
         /\ parts[2].type = parts[3].type

\* C13: pseudoElement() never raises the selector-order error. It raises the duplicate
\* error when pseudoElement() was called on the instance before; otherwise it appends
\* '::' + value after the parts already there, sets its flag and returns, also when the
\* parts already violate the order.
C13_PseudoElementSkipsOrderCheck ==
  [][\A b \in Builders :
       (CallOn(b) /\ last'.op = "pseudoElement") =>
         /\ last'.out # OrderError
         /\ (last'.out = DuplicateError) <=> ("pseudoElement" \in called[b])
         /\ "pseudoElement" \notin called[b] =>
              /\ last'.out = "ok"
              /\ builders'[b].selectors =
                   Append(builders[b].selectors,
                          [type |-> "pseudoElement", value |-> "::" \o last'.arg])
              /\ builders'[b].flags.pseudoElement]_vars

\* pseudoElement() returned on an instance that holds the residue of a caught order
\* error in front of the new part.
C13_Witness ==
  /\ last.op = "pseudoElement"
  /\ last.out = "ok"
  /\ LET parts == builders[last.b].selectors
     IN  /\ Len(parts) >= 3
         /\ Inversion(SubSeq(parts, 1, Len(parts) - 1))
         /\ parts[Len(parts)].type = "pseudoElement"

\* C14: when stringify() is called on an instance whose parts and combination are both
\* non-empty, it returns the concatenation of the parts' fragments only; the
\* combination's text is no part of the result, and the reset empties both sequences,
\* so the combination is lost.
C14_PartsWinOverCombination ==
  [][\A b \in Builders :
       (/\ CallOn(b)
        /\ last'.op = "stringify"
        /\ builders[b].selectors # <<>>
        /\ builders[b].combineSelectors # <<>>) =>
         /\ last'.ret = JsStr(PartsText(builders[b].selectors))
         /\ builders'[b].selectors = <<>>
         /\ builders'[b].combineSelectors = <<>>
         /\ Text(builders'[b]) = JsNull]_vars

\* The documented nested combination took class('a') and was then rendered: the
\* result is '.a' alone, and nothing is left of the combination.
C14_Witness ==
  /\ last.op = "stringify"
  /\ last.b = 2
  /\ last.ret = JsStr(".a")
  /\ called[2] = {}
  /\ builders[2].combineSelectors = <<>>
  /\ builders[1] = DocDraggable

\* What a call through the facade leaves of its new instance b: what the one operation
\* makes of empty sequences and all-false flags.
FacadeCallOnNew(b) ==
  /\ (b > created /\ last'.op \in CategoryOps) =>
       /\ last'.out = "ok"
       /\ builders'[b].selectors =
            <<[type |-> CategoryOf(last'.op), value |-> Fragment(last'.op, last'.arg)]>>
       /\ builders'[b].combineSelectors = <<>>
       /\ \A t \in Singletons : builders'[b].flags[t] <=> (t = last'.op)
  /\ (b > created /\ last'.op = "combine") =>
       /\ builders'[b].selectors = <<>>
       /\ Len(builders'[b].combineSelectors) = 3
       /\ \A t \in Singletons : ~ builders'[b].flags[t]

\* C15 as stated: instances share no mutable state. A call through the facade works on
\* a new instance with empty sequences and all-false flags, and a call on one instance
\* leaves the parts, the combination and the flags of every other instance unchanged.
C15_OthersUnchanged ==
  [][\A b \in Builders :
       CallOn(b) =>
         /\ FacadeCallOnNew(b)
         /\ \A o \in Builders \ {b} : builders'[o] = builders[o]]_vars

\* C15, amended: a call through the facade works on a new instance with empty
\* sequences and all-false flags. A call on one instance leaves the parts, the
\* combination and the flags of every other instance unchanged, except that combine()
\* empties the parts and the combination of its two operands (it renders them through
\* their own stringify()) and leaves their flags unchanged.
C15_InstancesAreIndependent ==
  [][\A b \in Builders :
       CallOn(b) =>
         /\ FacadeCallOnNew(b)
         /\ \A o \in Builders \ {b} :
              IF last'.op = "combine" /\ o \in {last'.l, last'.r}
              THEN /\ builders'[o].selectors = <<>>
                   /\ builders'[o].combineSelectors = <<>>
                   /\ builders'[o].flags = builders[o].flags
              ELSE builders'[o] = builders[o]]_vars

\* The facade's combine() made a third instance of the first one: the first is emptied
\* with its element flag kept, and the second, no operand, still holds its one part.
C15_Witness ==
  /\ created = 3
  /\ last.op = "combine"
  /\ last.b = 3
  /\ last.l = 1 /\ last.r = 1
  /\ builders[1].selectors = <<>>
  /\ builders[1].combineSelectors = <<>>
  /\ builders[1].flags.element
  /\ builders[2].selectors = <<[type |-> "class", value |-> ".b"]>>
  /\ ~ builders[2].flags.element
  /\ Len(builders[3].combineSelectors) = 3

\* C16: the facade's combine(left, c, right) renders left first and right second, each
\* through its own stringify(): afterwards both operands have empty parts and an empty
\* combination, so their next stringify() returns null. When one instance is both
\* operands, the right text is the null of the second render, and the combination
\* reads L + ' ' + c + ' ' with nothing after the combinator.
C16_CombineRendersOperandsInTurn ==
  [][\A b \in Builders :
       (CallOn(b) /\ last'.op = "combine" /\ b > created) =>
         LET l == last'.l
             r == last'.r
             pad == JsStr(" " \o last'.arg \o " ")
         IN  /\ \A o \in {l, r} :
                  /\ builders'[o].selectors = <<>>
                  /\ builders'[o].combineSelectors = <<>>
                  /\ stringify(builders'[o]).ret = JsNull
             /\ builders'[b].combineSelectors =
                  <<Text(builders[l]), pad, IF l = r THEN JsNull ELSE Text(builders[r])>>
             /\ l = r =>
                  Text(builders'[b]) = JsStr(Concat(<<Text(builders[l])>>) \o pad.str)]_vars

\* element('a').id('b') was passed as both operands of combine(): the new instance
\* holds 'a#b', ' + ' and null, which reads 'a#b + '.
C16_Witness ==
  /\ last.op = "combine"
  /\ last.l = last.r
  /\ last.b # last.l
  /\ builders[last.b].combineSelectors = <<JsStr("a#b"), JsStr(" + "), JsNull>>
  /\ Text(builders[last.b]) = JsStr("a#b + ")
  /\ builders[last.l].selectors = <<>>

\* The number of parts of one category in a parts sequence.
PartCount(parts, type) == Cardinality({i \in 1..Len(parts) : parts[i].type = type})

\* C17: in every reachable state, whatever calls, combinations, renders and raised
\* errors led to it, the parts of an instance hold at most one element part, at most
\* one id part and at most one pseudoElement part, and the flag of such a category is
\* true when a part of it is there; and no step turns a true flag false.
C17_SingletonsOnceAndFlagsStay ==
  /\ [](\A b \in Builders, t \in Singletons :
          /\ PartCount(builders[b].selectors, t) <= 1
          /\ HasPart(builders[b].selectors, t) => builders[b].flags[t])
  /\ [][\A b \in Builders, t \in Singletons :
          builders[b].flags[t] => builders'[b].flags[t]]_vars

\* An instance rendered after element() has its element flag still set with no element
\* part left, and has taken a class part since.
C17_Witness ==
  /\ last.op = "class"
  /\ last.out = "ok"
  /\ builders[last.b].flags.element
  /\ ~ HasPart(builders[last.b].selectors, "element")
  /\ Len(builders[last.b].selectors) = 1

\* C18: when element(), id() or pseudoElement() raises the duplicate error, the parts,
\* the combination and the flags of the instance are exactly what they were before
\* the call.
C18_DuplicateErrorChangesNothing ==
  [][\A b \in Builders :
       (CallOn(b) /\ last'.out = DuplicateError) =>
         /\ last'.op \in Singletons
         /\ builders'[b].selectors = builders[b].selectors
         /\ builders'[b].combineSelectors = builders[b].combineSelectors
         /\ builders'[b].flags = builders[b].flags]_vars

\* id() raised the duplicate error on an instance that holds its two parts, the id
\* part among them, a combination of three texts and its id flag.
C18_Witness ==
  /\ last.op = "id"
  /\ last.out = DuplicateError
  /\ Len(builders[last.b].selectors) = 2
  /\ PartCount(builders[last.b].selectors, "id") = 1
  /\ Len(builders[last.b].combineSelectors) = 3
  /\ builders[last.b].flags.id

\* The five category calls that end in checkOrder().
CheckedOps == {"element", "id", "class", "attr", "pseudoClass"}

\* C19: while a pseudoElement part is among the parts of an instance, every call of
\* element(), id(), class(), attr() or pseudoClass() on it raises an error: the
\* duplicate error when it is element() or id() called before, the order error
\* otherwise.
C19_NothingAfterPseudoElement ==
  [][\A b \in Builders :
       (/\ CallOn(b)
        /\ last'.op \in CheckedOps
        /\ HasPart(builders[b].selectors, "pseudoElement")) =>
         /\ last'.out \in {OrderError, DuplicateError}
         /\ (last'.out = DuplicateError) <=> (last'.op \in called[b])]_vars

\* class() raised the order error on an instance whose only part before was the
\* pseudo-element.
C19_Witness ==
  /\ last.op = "class"
  /\ last.out = OrderError
  /\ builders[last.b].selectors =
       <<[type |-> "pseudoElement", value |-> "::a"], [type |-> "class", value |-> ".b"]>>

\* C20: an instance whose parts violate the category order stays rejecting: every
\* call of element(), id(), class(), attr() or pseudoClass() on it raises an error,
\* the order error leaving its part behind and the parts still in violation.
\* stringify() ends that: it leaves the parts empty, and on empty parts class(),
\* attr() and pseudoClass() return without error.
C20_RejectsUntilRendered ==
  [][\A b \in Builders :
       CallOn(b) =>
         /\ (last'.op \in CheckedOps /\ Inversion(builders[b].selectors)) =>
              /\ last'.out \in {OrderError, DuplicateError}
              /\ last'.out = OrderError =>
                   builders'[b].selectors =
                     Append(builders[b].selectors,
                            [type |-> CategoryOf(last'.op),
                             value |-> Fragment(last'.op, last'.arg)])
              /\ Inversion(builders'[b].selectors)
         /\ last'.op = "stringify" => builders'[b].selectors = <<>>
         /\ (last'.op \in {"class", "attr", "pseudoClass"} /\ builders[b].selectors = <<>>) =>
              last'.out = "ok"]_vars

\* The parts .a #b were in violation, class('b') raised the order error on them and
\* left its part, and stringify() then returned all three and emptied the parts.
C20_Witness ==
  /\ last.op = "stringify"
  /\ last.ret = JsStr(".a#b.b")
  /\ builders[last.b].selectors = <<>>

====
